---- MODULE Spec2Model ----
(***************************************************************************)
(* agstash: a command line tool that copies a project's AGENTS.md to and   *)
(* from a per-user store (<home>/.agstash/stashes/stash-<project>.md).     *)
(*                                                                         *)
(* The state is the part of the file system the five verbs touch, the      *)
(* current working directory of the invocation, and a record of the last   *)
(* invocation (its inputs, what it returned and what it printed).          *)
(*                                                                         *)
(* Texts are sequences of one-character strings.  A file content is a      *)
(* record [text, pad] that denotes the characters of text followed by pad  *)
(* copies of the character "a": this keeps contents of ten million         *)
(* characters representable, so that the size ceiling of IsValidAgents     *)
(* keeps its real value.                                                   *)
(*                                                                         *)
(* Directory paths are sequences of path segments; <<>> is the file        *)
(* system root "/".  Calls of the os package succeed whenever the paths    *)
(* they need exist; a missing file or a missing parent directory is the    *)
(* only I/O failure in the model, and the home directory is resolvable.    *)
(***************************************************************************)
EXTENDS Integers, Sequences, FiniteSets, TLC

VARIABLES
    cwd,            \* the current working directory of the next invocation
    workdirs,       \* the directories the user invokes the tool from
    gitDirs,        \* the directories that hold a .git directory
    gitIgnores,     \* the directories that hold a .gitignore file
    agents,         \* agents[d]: the content of d/AGENTS.md, or NoFile
    agstashDir,     \* whether <home>/.agstash (with its stashes directory) exists
    stashes,        \* stashes[n]: the content of <home>/.agstash/stashes/stash-<n>.md, or NoFile
    stashedContent, \* stashedContent[n]: what the last successful stash of n validated, or NoFile
    stashedFrom,    \* stashedFrom[n]: the project root that last successful stash ran in, or NoPath
    call,           \* the last call of a helper function on its own: its argument and what it returned
    last            \* the last invocation: its inputs, what it returned, what it printed

vars == <<cwd, workdirs, gitDirs, gitIgnores, agents, agstashDir, stashes, stashedContent,
          stashedFrom, call, last>>

----------------------------------------------------------------------------
(* Bounds of the model *)

\* longest run of leading whitespace in a content the user writes
MaxWs == 1

----------------------------------------------------------------------------
(* Texts and contents *)

NoFile == [text |-> <<"<absent>">>, pad |-> -1]

Text(t) == [text |-> t, pad |-> 0]

ContentLen(content) == Len(content.text) + content.pad

CharAt(content, i) == IF i <= Len(content.text) THEN content.text[i] ELSE "a"

EmptyContent == Text(<<>>)

Header == <<"#", " ", "A", "G", "E", "N", "T", "S">>

Cutset_NoCR == {" ", "\t", "\n"}

Cutset == {" ", "\t", "\n", "\r"}

MaxContentSize == 10000000

\* strings.TrimLeft(content, cutset): the content without its leading characters in cutset
RECURSIVE TrimLeft(_, _)
TrimLeft(content, cutset) ==
    IF Len(content.text) > 0 /\ content.text[1] \in cutset
    THEN TrimLeft([text |-> Tail(content.text), pad |-> content.pad], cutset)
    ELSE content

\* strings.HasPrefix(s, prefix)
HasPrefix(content, prefix) ==
    /\ ContentLen(content) >= Len(prefix)
    /\ \A i \in 1..Len(prefix) : CharAt(content, i) = prefix[i]

basicValidation_NoTrim(content) == HasPrefix(content, Header)

basicValidation(content) == HasPrefix(TrimLeft(content, Cutset), Header)

\* IsValidAgents panics ("Content too large to process safely") on these contents
IsValidAgentsPanics_Gt(content) ==
    content # EmptyContent /\ ContentLen(content) > MaxContentSize

IsValidAgentsPanics(content) ==
    content # EmptyContent /\ ContentLen(content) >= MaxContentSize

\* a validator that only rejects the empty content
IsValidAgents_NoCheck(content) == content # EmptyContent

\* the value IsValidAgents returns when it does not panic
IsValidAgents(content) ==
    IF content = EmptyContent THEN FALSE ELSE basicValidation(content)

\* the template the tests of HandleInit expect
expectedContent ==
    Text(Header \o <<"\n", "\n">>
         \o <<"-", " ", "b", "e", " ", "c", "o", "n", "c", "i", "s", "e", " ", "a", "n", "d", " ", "f", "a", "c", "t", "u", "a", "l", ".", "\n">>
         \o <<"-", " ", "a", "l", "w", "a", "y", "s", " ", "t", "e", "s", "t", " ", "a", "f", "t", "e", "r", " ", "c", "h", "a", "n", "g", "e", "s", " ", "a", "r", "e", " ", "m", "a", "d", "e", ".", "\n">>
         \o <<"-", " ", "c", "r", "e", "a", "t", "e", " ", "t", "e", "s", "t", "s", " ", "a", "f", "t", "e", "r", " ", "a", " ", "n", "e", "w", " ", "f", "e", "a", "t", "u", "r", "e", " ", "i", "s", " ", "a", "d", "d", "e", "d", ".", "\n">>)

\* a HandleInit that always writes the default template
agentsContent_Default == expectedContent

\* the content HandleInit writes
agentsContent == Text(Header \o <<"\n", "\n", "\n">>)

WsRun == <<" ", "\n", "\t", "\r">>

Ws(k) == [i \in 1..k |-> WsRun[((i - 1) % 4) + 1]]

ValidContents == { Text(Ws(k) \o Header) : k \in 0..MaxWs }

\* "# AGENT": the header with its last letter missing
HeaderTypo == Text(SubSeq(Header, 1, 7))

\* a content of exactly MaxContentSize characters that starts with the header
Oversize == [text |-> Header, pad |-> MaxContentSize - Len(Header)]

\* what an editor may leave in a file
UserContents == ValidContents \cup {EmptyContent, HeaderTypo, Oversize}

----------------------------------------------------------------------------
(* Paths *)

FsRoot == <<>>
HomeDir == <<"home">>
ProjA == <<"home", "foo">>
SubA == <<"home", "foo", "sub">>
ProjB == <<"srv", "foo">>

Dirs == {FsRoot, HomeDir, ProjA, SubA, <<"srv">>, ProjB}

\* the empty path string that GetProjectRoot returns with an error
NoPath == <<"">>

\* filepath.Dir
Dir(path) == IF path = FsRoot THEN FsRoot ELSE SubSeq(path, 1, Len(path) - 1)

\* filepath.Base
Base_EmptyAtRoot(path) == IF path = FsRoot THEN "" ELSE path[Len(path)]

Base_First(path) == IF path = FsRoot THEN "/" ELSE path[1]

Base(path) == IF path = FsRoot THEN "/" ELSE path[Len(path)]

\* GetProjectRoot's loop, from the candidate currentPath upwards
RECURSIVE GetProjectRootFrom_Fallback(_, _, _)
GetProjectRootFrom_Fallback(currentPath, gits, ignores) ==
    IF currentPath \in gits THEN [err |-> "nil", root |-> currentPath]
    ELSE IF currentPath \in ignores THEN [err |-> "nil", root |-> currentPath]
    ELSE LET parentPath == Dir(currentPath) IN
         IF parentPath = currentPath
         THEN [err |-> "nil", root |-> currentPath]
         ELSE GetProjectRootFrom_Fallback(parentPath, gits, ignores)

RECURSIVE GetProjectRootFrom(_, _, _)
GetProjectRootFrom(currentPath, gits, ignores) ==
    IF currentPath \in gits THEN [err |-> "nil", root |-> currentPath]
    ELSE IF currentPath \in ignores THEN [err |-> "nil", root |-> currentPath]
    ELSE LET parentPath == Dir(currentPath) IN
         IF parentPath = currentPath
         THEN [err |-> "ProjectRootNotFound", root |-> NoPath]
         ELSE GetProjectRootFrom(parentPath, gits, ignores)

GetProjectRoot_Cwd == [err |-> "nil", root |-> cwd]

GetProjectRoot == GetProjectRootFrom(cwd, gitDirs, gitIgnores)

\* one pass through the body of GetProjectRoot's loop with the candidate currentPath:
\* whether the function is done after it, what it returns then, and the next candidate
GetProjectRootLoopBody_GitOnly(currentPath, gits, ignores) ==
    IF currentPath \in gits
    THEN [done |-> TRUE, err |-> "nil", root |-> currentPath, currentPath |-> currentPath]
    ELSE LET parentPath == Dir(currentPath) IN
         IF parentPath = currentPath
         THEN [done |-> TRUE, err |-> "ProjectRootNotFound", root |-> NoPath,
               currentPath |-> currentPath]
         ELSE [done |-> FALSE, err |-> "", root |-> NoPath, currentPath |-> parentPath]

GetProjectRootLoopBody_NoBreak(currentPath, gits, ignores) ==
    IF currentPath \in gits
    THEN [done |-> TRUE, err |-> "nil", root |-> currentPath, currentPath |-> currentPath]
    ELSE IF currentPath \in ignores
    THEN [done |-> TRUE, err |-> "nil", root |-> currentPath, currentPath |-> currentPath]
    ELSE [done |-> FALSE, err |-> "", root |-> NoPath, currentPath |-> Dir(currentPath)]

GetProjectRootLoopBody(currentPath, gits, ignores) ==
    IF currentPath \in gits
    THEN [done |-> TRUE, err |-> "nil", root |-> currentPath, currentPath |-> currentPath]
    ELSE IF currentPath \in ignores
    THEN [done |-> TRUE, err |-> "nil", root |-> currentPath, currentPath |-> currentPath]
    ELSE LET parentPath == Dir(currentPath) IN
         IF parentPath = currentPath
         THEN [done |-> TRUE, err |-> "ProjectRootNotFound", root |-> NoPath,
               currentPath |-> currentPath]
         ELSE [done |-> FALSE, err |-> "", root |-> NoPath, currentPath |-> parentPath]

\* the names a stash entry can carry: the names of the directories
StashNames == UNION { { d[i] : i \in 1..Len(d) } : d \in Dirs }

NoKey == "<none>"

\* <home>/.agstash/stashes, one tuple of string pieces per path segment
StashDirPath == [i \in 1..Len(HomeDir) |-> <<HomeDir[i]>>] \o << <<".agstash">>, <<"stashes">> >>

\* the segments of fmt.Sprintf("stash-%s.md", projectName) once filepath.Join has cleaned it
StashFileSegments_NoExt(projectName) ==
    IF projectName = "/" THEN << <<"stash-">> >>
    ELSE << <<"stash-", projectName>> >>

StashFileSegments(projectName) ==
    IF projectName = "/" THEN << <<"stash-">>, <<".md">> >>
    ELSE << <<"stash-", projectName, ".md">> >>

\* GetStashPath panics on an empty project name
GetStashPathPanics(projectName) == projectName = ""

\* the path GetStashPath returns (it also creates the stashes directory: see MkdirAllStashDir)
GetStashPath(projectName) == StashDirPath \o StashFileSegments(projectName)

\* the entry a path names when it is a file directly in the stashes directory
StashKey(path) ==
    IF \E n \in StashNames : path = StashDirPath \o << <<"stash-", n, ".md">> >>
    THEN CHOOSE n \in StashNames : path = StashDirPath \o << <<"stash-", n, ".md">> >>
    ELSE NoKey

----------------------------------------------------------------------------
(* File operations *)

\* an existence test that always answers yes
FileExists_Always(file) == TRUE

\* utils.FileExists, on the content of the file at the path (NoFile when there is none)
FileExists(file) == file # NoFile

\* utils.ReadFile
ReadFile(file) ==
    IF file = NoFile THEN [err |-> "IoError", data |-> EmptyContent]
    ELSE [err |-> "nil", data |-> file]

\* utils.WriteFile: what the file holds afterwards
WriteFile(content) == content

\* a copy that creates the destination and writes nothing into it
CopyFile_Truncating(srcFile, dstDirExists) ==
    IF srcFile = NoFile \/ ~dstDirExists THEN [err |-> "IoError", data |-> NoFile]
    ELSE [err |-> "nil", data |-> EmptyContent]

\* utils.CopyFile: reads all of src, then writes it to dst; dstDirExists says whether
\* the directory of dst exists
CopyFile(srcFile, dstDirExists) ==
    IF srcFile = NoFile THEN [err |-> "IoError", data |-> NoFile]
    ELSE IF ~dstDirExists THEN [err |-> "IoError", data |-> NoFile]
    ELSE [err |-> "nil", data |-> srcFile]

\* os.Remove(name): the file is gone afterwards; a name that is not there is an error
osRemove_Keeps(file) ==
    [err |-> "nil", data |-> file]

osRemove(file) ==
    IF file = NoFile
    THEN [err |-> "IoError", data |-> NoFile]
    ELSE [err |-> "nil", data |-> NoFile]

\* os.RemoveAll(path): the directory and everything under it is gone afterwards;
\* a path that is not there is no error
osRemoveAll_EmptyOnly(dir, entries) ==
    IF \E n \in DOMAIN entries : entries[n] # NoFile
    THEN [err |-> "IoError", dir |-> dir, entries |-> entries]
    ELSE [err |-> "nil", dir |-> FALSE, entries |-> entries]

osRemoveAll(dir, entries) ==
    [err |-> "nil", dir |-> FALSE, entries |-> [n \in DOMAIN entries |-> NoFile]]

\* utils.Assert(condition, message): returns when the condition holds, aborts the process otherwise
utilsAssert(condition) == condition

----------------------------------------------------------------------------
(* The confirmation prompt *)

UpperCase == <<"A", "B", "C", "D", "E", "F", "G", "H", "I", "J", "K", "L", "M",
               "N", "O", "P", "Q", "R", "S", "T", "U", "V", "W", "X", "Y", "Z">>

LowerCase == <<"a", "b", "c", "d", "e", "f", "g", "h", "i", "j", "k", "l", "m",
               "n", "o", "p", "q", "r", "s", "t", "u", "v", "w", "x", "y", "z">>

\* strings.ToLower
ToLower_Identity(s) == s

ToLower(s) ==
    [i \in 1..Len(s) |->
        IF \E k \in 1..26 : UpperCase[k] = s[i]
        THEN LowerCase[CHOOSE k \in 1..26 : UpperCase[k] = s[i]]
        ELSE s[i]]

SpaceChars == {" ", "\t", "\n", "\r", "\f"}

RECURSIVE TrimSpaceLeft(_)
TrimSpaceLeft(s) ==
    IF Len(s) > 0 /\ s[1] \in SpaceChars THEN TrimSpaceLeft(Tail(s)) ELSE s

RECURSIVE TrimSpaceRight(_)
TrimSpaceRight(s) ==
    IF Len(s) > 0 /\ s[Len(s)] \in SpaceChars
    THEN TrimSpaceRight(SubSeq(s, 1, Len(s) - 1)) ELSE s

\* strings.TrimSpace
TrimSpace(s) == TrimSpaceRight(TrimSpaceLeft(s))

\* the lines the user may type
Lines ==
    { <<"y">>,
      <<" ", "Y", "e", "s", "\t">>,
      <<"y", "e">>,
      <<"y", "e", "p">>,
      <<"y", "e", "a", "h">>,
      <<"n", "o">>,
      <<>>,
      <<"m", "a", "y", "b", "e">> }

\* what standard input yields to one Scan: a line, the end of input, or a read error
NoInput == [kind |-> "eof", text |-> <<>>]

Stdin == [kind : {"line"}, text : Lines] \cup {NoInput, [kind |-> "err", text |-> <<>>]}

\* a prompt whose default answer (an empty line, the end of input) is yes
getUserConfirmation_DefaultYes(in) ==
    [confirmed |-> in.kind # "err" /\ TrimSpace(ToLower(in.text)) \in {<<>>, <<"y">>, <<"y", "e", "s">>},
     err |-> in.kind = "err"]

\* getUserConfirmation: (confirmed, error)
getUserConfirmation(in) ==
    IF in.kind = "line"
    THEN LET input == TrimSpace(ToLower(in.text)) IN
         [confirmed |-> input \in {<<"y">>, <<"y", "e", "s">>, <<"y", "e">>,
                                  <<"y", "e", "p">>, <<"y", "e", "a", "h">>},
          err |-> FALSE]
    ELSE [confirmed |-> FALSE, err |-> in.kind = "err"]

\* an overwrite that never asks
needsConfirmation_Never(exists, force) == FALSE

\* needsConfirmation := utils.FileExists(path) && !force
needsConfirmation(exists, force) == exists /\ ~force

\* getUserConfirmation on each input of the model, evaluated once
Confirmations == [in \in Stdin |-> getUserConfirmation(in)]

\* how the answer read from standard input is recorded in last
Answer(in) ==
    IF in.kind = "line"
    THEN (IF Confirmations[in].confirmed THEN "yes" ELSE "no")
    ELSE in.kind

----------------------------------------------------------------------------
(* The state *)

\* where the markers are and where the user works
Scenarios ==
    { [gitDirs |-> {ProjA}, gitIgnores |-> {},      workdirs |-> {ProjA, SubA}],
      [gitDirs |-> {ProjA}, gitIgnores |-> {ProjB}, workdirs |-> {ProjA, ProjB}],
      [gitDirs |-> {},      gitIgnores |-> {FsRoot}, workdirs |-> {FsRoot}],
      [gitDirs |-> {},      gitIgnores |-> {},      workdirs |-> {ProjA}] }

\* overwrote: the run replaced an existing file by a different content
\* what main does with what a verb has returned: the exit status of the process and
\* what it writes to standard error (a panic ends the process with Go's status 2)
handleCommand_Returns(result) ==
    IF result = "nil" THEN [code |-> 0, stderr |-> <<>>]
    ELSE IF result = "panic" THEN [code |-> 2, stderr |-> <<"panic">>]
    ELSE [code |-> 0, stderr |-> <<"Error: ", result>>]

handleCommand(result) ==
    IF result = "nil" THEN [code |-> 0, stderr |-> <<>>]
    ELSE IF result = "panic" THEN [code |-> 2, stderr |-> <<"panic">>]
    ELSE [code |-> 1, stderr |-> <<"Error: ", result>>]

Record(verb, force, answer, result, outcome, root, overwrote) ==
    [verb |-> verb, force |-> force, answer |-> answer, result |-> result,
     outcome |-> outcome, root |-> root, overwrote |-> overwrote,
     exit |-> handleCommand(result)]

\* a step of the environment, which is no invocation of the tool
Env(verb) == Record(verb, FALSE, "none", "nil", "", NoPath, FALSE)

\* no helper function has been called on its own
NoCall == [fn |-> "none"]

Init ==
    /\ \E sc \in Scenarios :
          /\ gitDirs = sc.gitDirs
          /\ gitIgnores = sc.gitIgnores
          /\ workdirs = sc.workdirs
          /\ cwd \in sc.workdirs
    /\ agents = [d \in Dirs |-> NoFile]
    /\ agstashDir = FALSE
    /\ stashes = [n \in StashNames |-> NoFile]
    /\ stashedContent = [n \in StashNames |-> NoFile]
    /\ stashedFrom = [n \in StashNames |-> NoPath]
    /\ call = NoCall
    /\ last = Env("start")

\* the content of the file at a path under the stashes directory
StashFile(path) == IF StashKey(path) = NoKey THEN NoFile ELSE stashes[StashKey(path)]

----------------------------------------------------------------------------
(* The environment: the user changes directory and edits files *)

Chdir(d) ==
    /\ d \in workdirs
    /\ d # cwd
    /\ cwd' = d
    /\ last' = Env("cd")
    /\ UNCHANGED <<workdirs, gitDirs, gitIgnores, agents, agstashDir, stashes, stashedContent, stashedFrom, call>>

\* the user saves AGENTS.md in the current directory from an editor
EditLocal(c) ==
    /\ agents[cwd] # c
    /\ agents' = [agents EXCEPT ![cwd] = c]
    /\ last' = Env("edit")
    /\ UNCHANGED <<cwd, workdirs, gitDirs, gitIgnores, agstashDir, stashes, stashedContent, stashedFrom, call>>

\* the user overwrites the stash entry of the current project by hand
EditStash(c) ==
    /\ agstashDir
    /\ GetProjectRoot.err = "nil"
    /\ StashKey(GetStashPath(Base(GetProjectRoot.root))) # NoKey
    /\ LET n == StashKey(GetStashPath(Base(GetProjectRoot.root))) IN
          /\ stashes[n] # c
          /\ stashes' = [stashes EXCEPT ![n] = c]
          /\ stashedContent' = [stashedContent EXCEPT ![n] = NoFile]
          /\ stashedFrom' = [stashedFrom EXCEPT ![n] = NoPath]
    /\ last' = Env("editstash")
    /\ UNCHANGED <<cwd, workdirs, gitDirs, gitIgnores, agents, agstashDir, call>>

----------------------------------------------------------------------------
(* The verbs *)

HandleInit(force, in) ==
    LET agentsFile == agents[cwd]
        prompt == needsConfirmation(FileExists(agentsFile), force)
        answer == IF prompt THEN Answer(in) ELSE "none"
        conf == Confirmations[in]
    IN
    \* standard input matters only to a run that reads it
    /\ prompt \/ in = NoInput
    /\ IF prompt /\ conf.err
       THEN /\ last' = Record("init", force, answer, "ReadError", "", NoPath, FALSE)
            /\ UNCHANGED agents
       ELSE IF prompt /\ ~conf.confirmed
       THEN /\ last' = Record("init", force, answer, "nil", "cancelled", NoPath, FALSE)
            /\ UNCHANGED agents
       ELSE /\ agents' = [agents EXCEPT ![cwd] = WriteFile(agentsContent)]
            /\ last' = Record("init", force, answer, "nil", "Created", NoPath,
                              agentsFile \notin {NoFile, WriteFile(agentsContent)})
    /\ UNCHANGED <<cwd, workdirs, gitDirs, gitIgnores, agstashDir, stashes, stashedContent, stashedFrom, call>>

HandleClean ==
    /\ IF FileExists(agents[cwd])
       THEN \E rm \in {osRemove(agents[cwd])} :
               IF rm.err # "nil"
               THEN /\ last' = Record("clean", FALSE, "none", "IoError", "", NoPath, FALSE)
                    /\ UNCHANGED agents
               ELSE /\ agents' = [agents EXCEPT ![cwd] = rm.data]
                    /\ last' = Record("clean", FALSE, "none", "nil", "Removed", NoPath, FALSE)
       ELSE /\ last' = Record("clean", FALSE, "none", "nil", "does not exist", NoPath, FALSE)
            /\ UNCHANGED agents
    /\ UNCHANGED <<cwd, workdirs, gitDirs, gitIgnores, agstashDir, stashes, stashedContent, stashedFrom, call>>

\* what a run of a verb leaves behind: what it returned and printed, and the files
Effect_Move(result, outcome, root, dir, entries, validated, files) ==
    [result |-> result, outcome |-> outcome, root |-> root, agstashDir |-> dir,
     stashes |-> entries, stashedContent |-> validated,
     agents |-> IF outcome = "Stashed" THEN [files EXCEPT ![root] = NoFile] ELSE files]

Effect(result, outcome, root, dir, entries, validated, files) ==
    [result |-> result, outcome |-> outcome, root |-> root, agstashDir |-> dir,
     stashes |-> entries, stashedContent |-> validated, agents |-> files]

\* HandleStash, run in the current state
StashEffect ==
    LET r == GetProjectRoot
        root == r.root
        projectName == Base(root)
        agentsFile == agents[root]
        rd == ReadFile(agentsFile)
        stashPath == GetStashPath(projectName)
        key == StashKey(stashPath)
        cp == CopyFile(agentsFile, key # NoKey)
    IN
    IF r.err # "nil"
    THEN Effect(r.err, "", NoPath, agstashDir, stashes, stashedContent, agents)
    ELSE IF ~utilsAssert(root # NoPath) \/ ~utilsAssert(projectName # "")
    THEN Effect("panic", "", root, agstashDir, stashes, stashedContent, agents)
    ELSE IF ~FileExists(agentsFile)
    THEN Effect("nil", "missing", root, agstashDir, stashes, stashedContent, agents)
    ELSE IF rd.err # "nil"
    THEN Effect(rd.err, "", root, agstashDir, stashes, stashedContent, agents)
    ELSE IF IsValidAgentsPanics(rd.data)
    THEN Effect("panic", "", root, agstashDir, stashes, stashedContent, agents)
    ELSE IF ~IsValidAgents(rd.data)
    THEN Effect("nil", "invalid", root, agstashDir, stashes, stashedContent, agents)
    ELSE IF GetStashPathPanics(projectName)
    THEN Effect("panic", "", root, agstashDir, stashes, stashedContent, agents)
    \* from here on GetStashPath has created <home>/.agstash/stashes
    ELSE IF cp.err # "nil"
    THEN Effect(cp.err, "", root, TRUE, stashes, stashedContent, agents)
    ELSE Effect("nil", "Stashed", root, TRUE,
                [stashes EXCEPT ![key] = cp.data],
                [stashedContent EXCEPT ![key] = rd.data], agents)

HandleStash ==
    /\ \E e \in {StashEffect} :
       /\ last' = Record("stash", FALSE, "none", e.result, e.outcome, e.root,
                         \E n \in StashNames : stashes[n] \notin {NoFile, e.stashes[n]})
       /\ agstashDir' = e.agstashDir
       /\ stashes' = e.stashes
       /\ stashedContent' = e.stashedContent
       /\ stashedFrom' = IF e.outcome = "Stashed"
                         THEN [stashedFrom EXCEPT ![StashKey(GetStashPath(Base(e.root)))] = e.root]
                         ELSE stashedFrom
       /\ agents' = e.agents
    /\ UNCHANGED <<cwd, workdirs, gitDirs, gitIgnores, call>>

\* applyStashContent(stashFilePath, agentsMdFilePath, projectName), entered with the
\* stashes directory in existence
applyStashContent(stashFile, root, projectName) ==
    LET rd == ReadFile(stashFile)
        cp == CopyFile(stashFile, TRUE)
    IN
    IF ~utilsAssert(projectName # "") \/ ~utilsAssert(FileExists(stashFile))
    THEN Effect("panic", "", root, TRUE, stashes, stashedContent, agents)
    ELSE IF rd.err # "nil"
    THEN Effect(rd.err, "", root, TRUE, stashes, stashedContent, agents)
    ELSE IF ~utilsAssert(rd.data # EmptyContent)
    THEN Effect("panic", "", root, TRUE, stashes, stashedContent, agents)
    ELSE IF IsValidAgentsPanics(rd.data)
    THEN Effect("panic", "", root, TRUE, stashes, stashedContent, agents)
    ELSE IF ~IsValidAgents(rd.data)
    THEN Effect("nil", "invalid", root, TRUE, stashes, stashedContent, agents)
    ELSE IF cp.err # "nil"
    THEN Effect(cp.err, "", root, TRUE, stashes, stashedContent, agents)
    ELSE Effect("nil", "Applied", root, TRUE, stashes, stashedContent,
                [agents EXCEPT ![root] = cp.data])

\* whether HandleApply(force) reads standard input in the current state
ApplyPrompts(force) ==
    LET r == GetProjectRoot IN
    /\ r.err = "nil"
    /\ ~GetStashPathPanics(Base(r.root))
    /\ FileExists(StashFile(GetStashPath(Base(r.root))))
    /\ needsConfirmation(FileExists(agents[r.root]), force)

\* HandleApply(force), run in the current state with in on standard input
ApplyEffect(force, in) ==
    LET r == GetProjectRoot
        root == r.root
        projectName == Base(root)
        stashFilePath == GetStashPath(projectName)
        stashFile == StashFile(stashFilePath)
        conf == Confirmations[in]
    IN
    IF r.err # "nil"
    THEN Effect(r.err, "", NoPath, agstashDir, stashes, stashedContent, agents)
    ELSE IF ~utilsAssert(root # NoPath) \/ ~utilsAssert(projectName # "")
    THEN Effect("panic", "", root, agstashDir, stashes, stashedContent, agents)
    ELSE IF GetStashPathPanics(projectName)
    THEN Effect("panic", "", root, agstashDir, stashes, stashedContent, agents)
    \* from here on GetStashPath has created <home>/.agstash/stashes
    ELSE IF ~FileExists(stashFile)
    THEN Effect("nil", "No stash found", root, TRUE, stashes, stashedContent, agents)
    ELSE IF ApplyPrompts(force) /\ conf.err
    THEN Effect("ReadError", "", root, TRUE, stashes, stashedContent, agents)
    ELSE IF ApplyPrompts(force) /\ ~conf.confirmed
    THEN Effect("nil", "cancelled", root, TRUE, stashes, stashedContent, agents)
    ELSE applyStashContent(stashFile, root, projectName)

HandleApply(force, in) ==
    \* standard input matters only to a run that reads it
    /\ ApplyPrompts(force) \/ in = NoInput
    /\ \E e \in {ApplyEffect(force, in)} :
       /\ last' = Record("apply", force, IF ApplyPrompts(force) THEN Answer(in) ELSE "none",
                      e.result, e.outcome, e.root,
                      \E d \in Dirs : agents[d] \notin {NoFile, e.agents[d]})
       /\ agstashDir' = e.agstashDir
       /\ stashes' = e.stashes
       /\ stashedContent' = e.stashedContent
       /\ UNCHANGED stashedFrom
       /\ agents' = e.agents
    /\ UNCHANGED <<cwd, workdirs, gitDirs, gitIgnores, call>>

HandleUninstall ==
    /\ IF agstashDir
       THEN \E rm \in {osRemoveAll(agstashDir, stashes)} :
               IF rm.err # "nil"
               THEN /\ last' = Record("uninstall", FALSE, "none", "IoError", "", NoPath, FALSE)
                    /\ UNCHANGED <<agstashDir, stashes, stashedContent, stashedFrom>>
               ELSE /\ agstashDir' = rm.dir
                    /\ stashes' = rm.entries
                    /\ stashedContent' = [n \in StashNames |-> NoFile]
                    /\ stashedFrom' = [n \in StashNames |-> NoPath]
                    /\ last' = Record("uninstall", FALSE, "none", "nil", "Removed", NoPath, FALSE)
       ELSE /\ last' = Record("uninstall", FALSE, "none", "nil", "does not exist", NoPath, FALSE)
            /\ UNCHANGED <<agstashDir, stashes, stashedContent, stashedFrom>>
    /\ UNCHANGED <<cwd, workdirs, gitDirs, gitIgnores, agents, call>>

\* main called with no command ("") or with a command that is no verb: it prints the
\* usage and, unless the command is help, exits with status 1
OtherCommand(command) ==
    /\ last' = [Env(IF command = "" THEN "nocommand"
                    ELSE IF command = "help" THEN "help" ELSE "unknown")
                  EXCEPT !.exit =
                     IF command = "help" THEN [code |-> 0, stderr |-> <<>>]
                     ELSE IF command = "" THEN [code |-> 1, stderr |-> <<>>]
                     ELSE [code |-> 1, stderr |-> <<"Unknown command: ", command>>]]
    /\ UNCHANGED <<cwd, workdirs, gitDirs, gitIgnores, agents, agstashDir, stashes,
                   stashedContent, stashedFrom, call>>

\* commands that are no verbs
OtherCommands == {"", "help", "status"}

----------------------------------------------------------------------------
(* The specification *)

Next ==
    \/ \E d \in Dirs : Chdir(d)
    \/ \E c \in UserContents : EditLocal(c)
    \/ \E c \in UserContents : EditStash(c)
    \/ \E force \in BOOLEAN, in \in Stdin : HandleInit(force, in)
    \/ HandleClean
    \/ HandleStash
    \/ \E force \in BOOLEAN, in \in Stdin : HandleApply(force, in)
    \/ HandleUninstall
    \/ \E command \in OtherCommands : OtherCommand(command)

Spec == Init /\ [][Next]_vars

\* the same program where nobody writes under <home>/.agstash by hand
NextVerbs ==
    \/ \E d \in Dirs : Chdir(d)
    \/ \E c \in UserContents : EditLocal(c)
    \/ \E force \in BOOLEAN, in \in Stdin : HandleInit(force, in)
    \/ HandleClean
    \/ HandleStash
    \/ \E force \in BOOLEAN, in \in Stdin : HandleApply(force, in)
    \/ HandleUninstall
    \/ \E command \in OtherCommands : OtherCommand(command)

SpecVerbs == Init /\ [][NextVerbs]_vars

----------------------------------------------------------------------------
(* Root discovery on its own: GetProjectRoot called in any tree of marked directories,
   one pass through its loop at a time *)

\* the passes after which the walk is cut off
MaxChecks == 6

InitRoot ==
    /\ cwd \in Dirs
    /\ gitDirs \in SUBSET Dirs
    /\ gitIgnores \in SUBSET Dirs
    /\ workdirs = Dirs
    /\ agents = [d \in Dirs |-> NoFile]
    /\ agstashDir = FALSE
    /\ stashes = [n \in StashNames |-> NoFile]
    /\ stashedContent = [n \in StashNames |-> NoFile]
    /\ stashedFrom = [n \in StashNames |-> NoPath]
    /\ call = NoCall
    /\ last = Env("start")

\* os.Getwd() and the first candidate
GetProjectRootEnter ==
    /\ call = NoCall
    /\ call' = [fn |-> "GetProjectRoot", done |-> FALSE, err |-> "", root |-> NoPath,
                currentPath |-> cwd, checks |-> 0]
    /\ UNCHANGED <<cwd, workdirs, gitDirs, gitIgnores, agents, agstashDir, stashes,
                   stashedContent, stashedFrom, last>>

\* one pass through the loop
GetProjectRootLoop ==
    /\ call.fn = "GetProjectRoot"
    /\ ~call.done
    /\ call.checks < MaxChecks
    /\ \E b \in {GetProjectRootLoopBody(call.currentPath, gitDirs, gitIgnores)} :
          call' = [fn |-> "GetProjectRoot", done |-> b.done, err |-> b.err, root |-> b.root,
                   currentPath |-> b.currentPath, checks |-> call.checks + 1]
    /\ UNCHANGED <<cwd, workdirs, gitDirs, gitIgnores, agents, agstashDir, stashes,
                   stashedContent, stashedFrom, last>>

NextRoot ==
    \/ GetProjectRootEnter
    \/ GetProjectRootLoop

SpecRoot == InitRoot /\ [][NextRoot]_vars

----------------------------------------------------------------------------
(* The helper functions on their own: each action is one call, on any argument *)

\* a fresh home directory and one project, as the tests of the functions set up
InitFn ==
    /\ cwd = ProjA
    /\ workdirs = {ProjA}
    /\ gitDirs = {ProjA}
    /\ gitIgnores = {}
    /\ agents = [d \in Dirs |-> NoFile]
    /\ agstashDir = FALSE
    /\ stashes = [n \in StashNames |-> NoFile]
    /\ stashedContent = [n \in StashNames |-> NoFile]
    /\ stashedFrom = [n \in StashNames |-> NoPath]
    /\ call = NoCall
    /\ last = Env("start")

\* the project names GetStashPath is called with: the base names of directories, the
\* name its test uses, and the empty name
FnNames == StashNames \cup {"/", "test-project", ""}

\* the path as the string the function returns: every segment behind a separator
RECURSIVE PathString(_)
PathString(path) ==
    IF path = <<>> THEN <<>> ELSE <<"/">> \o Head(path) \o PathString(Tail(path))

\* GetStashPath(projectName): panics on the empty name, creates the stashes directory
\* and returns the path of the entry
CallGetStashPath(projectName) ==
    /\ IF GetStashPathPanics(projectName)
       THEN /\ call' = [fn |-> "GetStashPath", arg |-> projectName, existed |-> agstashDir,
                        ret |-> <<"panic">>]
            /\ UNCHANGED agstashDir
       ELSE /\ call' = [fn |-> "GetStashPath", arg |-> projectName, existed |-> agstashDir,
                        ret |-> PathString(GetStashPath(projectName))]
            /\ agstashDir' = TRUE
    /\ UNCHANGED <<cwd, workdirs, gitDirs, gitIgnores, agents, stashes, stashedContent,
                   stashedFrom, last>>

\* leading runs of spaces, newlines, tabs and carriage returns, of up to MaxWs characters
FnWs == UNION { [1..k -> { WsRun[i] : i \in 1..Len(WsRun) }] : k \in 0..MaxWs }

\* what follows the leading run: the header, near misses of it, and other text
FnCores ==
    { Header,
      Header \o <<"\n">>,
      Header \o <<"\n", "\n", "-", " ", "c", "o", "n", "t", "e", "n", "t">>,
      SubSeq(Header, 1, 7),
      SubSeq(Header, 3, 8),
      <<"#">> \o SubSeq(Header, 3, 8),
      <<"#", " ", "a", "g", "e", "n", "t", "s">>,
      <<"x">> \o Header,
      <<"\f">> \o Header,
      <<"-", " ", "c", "o", "n", "t", "e", "n", "t">>,
      <<"a">>,
      <<>> }

\* the number of characters "a" that follow a text: none, or as many as bring the
\* content to one character below, onto, or one character above the size limit
FnPads(t) == {0} \cup { MaxContentSize - Len(t) + k : k \in {-1, 0, 1} }

\* the contents IsValidAgents is called with
FnContents ==
    UNION { { [text |-> w \o t, pad |-> p] : w \in FnWs, p \in FnPads(t) } : t \in FnCores }

\* IsValidAgents(content): panics, or returns true or false
CallIsValidAgents(content) ==
    /\ call' = [fn |-> "IsValidAgents", arg |-> content,
                ret |-> IF IsValidAgentsPanics(content) THEN "panic"
                        ELSE IF IsValidAgents(content) THEN "true" ELSE "false"]
    /\ UNCHANGED <<cwd, workdirs, gitDirs, gitIgnores, agents, agstashDir, stashes,
                   stashedContent, stashedFrom, last>>

\* the words a user may answer with
FnWords ==
    { <<"y">>, <<"y", "e", "s">>, <<"y", "e">>, <<"y", "e", "p">>, <<"y", "e", "a", "h">>,
      <<"n">>, <<"n", "o">>, <<"y", "e", "s", "s">>, <<"y", "a">>, <<"o", "k">>,
      <<"y", " ", "e", "s">>, <<"y", "e", "s", " ", "n", "o">>, <<"e", "s">>, <<>> }

\* a word in capitals, and with a capital first letter
Capitals(word) ==
    [i \in 1..Len(word) |->
        IF \E k \in 1..26 : LowerCase[k] = word[i]
        THEN UpperCase[CHOOSE k \in 1..26 : LowerCase[k] = word[i]]
        ELSE word[i]]

Capitalised(word) ==
    [i \in 1..Len(word) |-> IF i = 1 THEN Capitals(word)[i] ELSE word[i]]

\* the lines read from standard input: a word as typed, in capitals or capitalised,
\* between runs of spaces and tabs
FnLines ==
    { before \o typed \o after :
        before \in {<<>>, <<" ">>, <<"\t", " ">>},
        typed \in UNION { {word, Capitals(word), Capitalised(word)} : word \in FnWords },
        after \in {<<>>, <<" ">>, <<" ", "\t">>} }

FnStdin == [kind : {"line"}, text : FnLines] \cup {NoInput, [kind |-> "err", text |-> <<>>]}

\* getUserConfirmation(), with what standard input yields to its one Scan
CallGetUserConfirmation(in) ==
    /\ call' = [fn |-> "getUserConfirmation", arg |-> in, ret |-> getUserConfirmation(in)]
    /\ UNCHANGED <<cwd, workdirs, gitDirs, gitIgnores, agents, agstashDir, stashes,
                   stashedContent, stashedFrom, last>>

\* the verbs of main's switch
Verbs == {"init", "clean", "stash", "apply", "uninstall"}

\* the arguments that are flags
FlagTokens == {"-v", "--verbose", "-f", "--force"}

\* the argument lists (os.Args without the program name) main is started with
MainArgs ==
    { <<>>, <<"help">>, <<"status">>, <<"init", "--force">>, <<"-v", "apply", "--force">> }
    \cup { <<verb>> : verb \in Verbs }
    \cup { <<flag, verb>> : flag \in {"-v", "--verbose"}, verb \in Verbs }
    \cup { <<verb, flag>> : verb \in Verbs, flag \in {"-v", "--verbose"} }
    \cup { <<"apply", flag>> : flag \in {"-f", "--force"} }

\* what a verb hands back to main
HandlerResults == {"nil", "ProjectRootNotFound", "IoError"}

\* the value main reads from verboseFlag: flag.Bool's default, since main never calls
\* flag.Parse
verboseFlag == FALSE

\* utils.SetupLogging: where the log lines of LogInfo and LogWarn go
SetupLogging(verbose) == IF verbose THEN "stdout" ELSE "discard"

\* the flags the FlagSet of a command defines
CommandFlags(command) == IF command = "apply" THEN {"-f", "--force"} ELSE {}

\* FlagSet.Parse under flag.ExitOnError: reads flags up to the first argument that is
\* none; a flag the set does not define ends the process
RECURSIVE FlagSetParse(_, _)
FlagSetParse(defined, args) ==
    IF args = <<>> \/ Head(args) \notin FlagTokens THEN [ok |-> TRUE, set |-> {}]
    ELSE IF Head(args) \notin defined THEN [ok |-> FALSE, set |-> {}]
    ELSE LET rest == FlagSetParse(defined, Tail(args)) IN
         [ok |-> rest.ok, set |-> rest.set \cup {Head(args)}]

\* main, started with args, where the verb it calls (if any) returns result
CallMain(args, result) ==
    /\ call' =
          IF Len(args) < 1
          THEN [fn |-> "main", arg |-> args, logging |-> "unset", handler |-> "none",
                force |-> FALSE, code |-> 1]
          ELSE LET command == args[1]
                   subArgs == Tail(args)
                   logging == SetupLogging(verboseFlag)
                   parsed == FlagSetParse(CommandFlags(command), subArgs)
               IN
               IF command \in Verbs /\ parsed.ok
               THEN [fn |-> "main", arg |-> args, logging |-> logging, handler |-> command,
                     force |-> parsed.set # {}, code |-> handleCommand(result).code]
               ELSE IF command \in Verbs
               THEN [fn |-> "main", arg |-> args, logging |-> logging, handler |-> "none",
                     force |-> FALSE, code |-> 2]
               ELSE [fn |-> "main", arg |-> args, logging |-> logging, handler |-> "none",
                     force |-> FALSE, code |-> IF command = "help" THEN 0 ELSE 1]
    /\ UNCHANGED <<cwd, workdirs, gitDirs, gitIgnores, agents, agstashDir, stashes,
                   stashedContent, stashedFrom, last>>

NextFn ==
    \/ \E args \in MainArgs, result \in HandlerResults : CallMain(args, result)
    \/ \E projectName \in FnNames : CallGetStashPath(projectName)
    \/ \E content \in FnContents : CallIsValidAgents(content)
    \/ \E in \in FnStdin : CallGetUserConfirmation(in)

SpecFn == InitFn /\ [][NextFn]_vars

----------------------------------------------------------------------------
(* One run of stash or apply taken system call by system call, next to the other
   processes that work on the same files: an editor, and other runs of the tool *)

\* the run is not under way
Idle == IF call = NoCall THEN TRUE ELSE call.pc = "done"

\* the run of verb fn at its first step
Running(fn, force) ==
    [fn |-> fn, pc |-> "root", force |-> force, root |-> NoPath, content |-> NoFile,
     srcData |-> NoFile, prompted |-> FALSE, ret |-> "", outcome |-> ""]

\* the run over, with what the verb returns and prints
Done(ret, outcome) == [call EXCEPT !.pc = "done", !.ret = ret, !.outcome = outcome]

\* the entry name of the run's project
RunKey == StashKey(GetStashPath(Base(call.root)))

InitSteps ==
    /\ cwd = ProjA
    /\ workdirs = {ProjA}
    /\ gitDirs = {ProjA}
    /\ gitIgnores = {}
    /\ agents = [d \in Dirs |-> NoFile]
    /\ agstashDir = FALSE
    /\ stashes = [n \in StashNames |-> NoFile]
    /\ stashedContent = [n \in StashNames |-> NoFile]
    /\ stashedFrom = [n \in StashNames |-> NoPath]
    /\ call = NoCall
    /\ last = Env("start")

\* the tool is started with stash, or with apply
Enter(fn, force) ==
    /\ Idle
    /\ call' = Running(fn, force)
    /\ UNCHANGED <<cwd, workdirs, gitDirs, gitIgnores, agents, agstashDir, stashes,
                   stashedContent, stashedFrom, last>>

\* utils.GetProjectRoot() and the assertions on root and projectName, in either verb
StepGetProjectRoot ==
    /\ ~Idle
    /\ call.pc = "root"
    /\ \E r \in {GetProjectRoot} :
          call' = IF r.err # "nil" THEN Done(r.err, "")
                  ELSE IF ~utilsAssert(r.root # NoPath) \/ ~utilsAssert(Base(r.root) # "")
                  THEN Done("panic", "projectName should not be empty")
                  ELSE [call EXCEPT !.root = r.root,
                                    !.pc = IF call.fn = "HandleStash" THEN "exists"
                                           ELSE "stashpath"]
    /\ UNCHANGED <<cwd, workdirs, gitDirs, gitIgnores, agents, agstashDir, stashes,
                   stashedContent, stashedFrom, last>>

\* HandleStash: utils.FileExists(agentsPath)
StashFileExists ==
    /\ ~Idle
    /\ call.fn = "HandleStash"
    /\ call.pc = "exists"
    /\ call' = IF FileExists(agents[call.root]) THEN [call EXCEPT !.pc = "read"]
               ELSE Done("nil", "missing")
    /\ UNCHANGED <<cwd, workdirs, gitDirs, gitIgnores, agents, agstashDir, stashes,
                   stashedContent, stashedFrom, last>>

\* HandleStash: utils.ReadFile(agentsPath)
StashReadFile ==
    /\ ~Idle
    /\ call.fn = "HandleStash"
    /\ call.pc = "read"
    /\ \E rd \in {ReadFile(agents[call.root])} :
          call' = IF rd.err # "nil" THEN Done(rd.err, "")
                  ELSE [call EXCEPT !.content = rd.data, !.pc = "validate"]
    /\ UNCHANGED <<cwd, workdirs, gitDirs, gitIgnores, agents, agstashDir, stashes,
                   stashedContent, stashedFrom, last>>

\* HandleStash: utils.IsValidAgents(agentsContent), then utils.GetStashPath(projectName),
\* which creates <home>/.agstash/stashes
StashValidate ==
    /\ ~Idle
    /\ call.fn = "HandleStash"
    /\ call.pc = "validate"
    /\ IF IsValidAgentsPanics(call.content)
       THEN call' = Done("panic", "Content too large to process safely")
            /\ UNCHANGED agstashDir
       ELSE IF ~IsValidAgents(call.content)
       THEN call' = Done("nil", "invalid") /\ UNCHANGED agstashDir
       ELSE IF GetStashPathPanics(Base(call.root))
       THEN call' = Done("panic", "Project name cannot be empty") /\ UNCHANGED agstashDir
       ELSE call' = [call EXCEPT !.pc = "copyread"] /\ agstashDir' = TRUE
    /\ UNCHANGED <<cwd, workdirs, gitDirs, gitIgnores, agents, stashes,
                   stashedContent, stashedFrom, last>>

\* utils.CopyFile: os.ReadFile(src), in either verb
StepCopyRead ==
    /\ ~Idle
    /\ call.pc = "copyread"
    /\ \E rd \in {ReadFile(IF call.fn = "HandleStash" THEN agents[call.root]
                          ELSE StashFile(GetStashPath(Base(call.root))))} :
          call' = IF rd.err # "nil" THEN Done("IoError", "")
                  ELSE [call EXCEPT !.srcData = rd.data, !.pc = "copywrite"]
    /\ UNCHANGED <<cwd, workdirs, gitDirs, gitIgnores, agents, agstashDir, stashes,
                   stashedContent, stashedFrom, last>>

\* HandleStash, in utils.CopyFile: os.WriteFile(dst, srcData)
StashCopyWrite ==
    /\ ~Idle
    /\ call.fn = "HandleStash"
    /\ call.pc = "copywrite"
    /\ \E written \in {WriteFile(call.srcData)} :
          IF ~agstashDir \/ RunKey = NoKey
          THEN call' = Done("IoError", "")
               /\ UNCHANGED <<stashes, stashedContent, stashedFrom>>
          ELSE /\ call' = Done("nil", "Stashed")
               /\ stashes' = [stashes EXCEPT ![RunKey] = written]
               /\ stashedContent' = [stashedContent EXCEPT ![RunKey] = call.content]
               /\ stashedFrom' = [stashedFrom EXCEPT ![RunKey] = call.root]
    /\ UNCHANGED <<cwd, workdirs, gitDirs, gitIgnores, agents, agstashDir, last>>

\* HandleApply: utils.GetStashPath(projectName), which creates <home>/.agstash/stashes
ApplyGetStashPath ==
    /\ ~Idle
    /\ call.fn = "HandleApply"
    /\ call.pc = "stashpath"
    /\ IF GetStashPathPanics(Base(call.root))
       THEN call' = Done("panic", "Project name cannot be empty") /\ UNCHANGED agstashDir
       ELSE call' = [call EXCEPT !.pc = "exists"] /\ agstashDir' = TRUE
    /\ UNCHANGED <<cwd, workdirs, gitDirs, gitIgnores, agents, stashes,
                   stashedContent, stashedFrom, last>>

\* HandleApply: utils.FileExists(stashFilePath)
ApplyFileExists ==
    /\ ~Idle
    /\ call.fn = "HandleApply"
    /\ call.pc = "exists"
    /\ call' = IF FileExists(StashFile(GetStashPath(Base(call.root))))
               THEN [call EXCEPT !.pc = "needs"]
               ELSE Done("nil", "No stash found")
    /\ UNCHANGED <<cwd, workdirs, gitDirs, gitIgnores, agents, agstashDir, stashes,
                   stashedContent, stashedFrom, last>>

\* HandleApply: needsConfirmation := utils.FileExists(agentsMdFilePath) && !force
ApplyNeedsConfirmation ==
    /\ ~Idle
    /\ call.fn = "HandleApply"
    /\ call.pc = "needs"
    /\ call' = IF needsConfirmation(FileExists(agents[call.root]), call.force)
               THEN [call EXCEPT !.pc = "prompt"]
               ELSE [call EXCEPT !.pc = "assert"]
    /\ UNCHANGED <<cwd, workdirs, gitDirs, gitIgnores, agents, agstashDir, stashes,
                   stashedContent, stashedFrom, last>>

\* HandleApply: getUserConfirmation(), which waits for standard input
ApplyPrompt(in) ==
    /\ ~Idle
    /\ call.fn = "HandleApply"
    /\ call.pc = "prompt"
    /\ \E conf \in {getUserConfirmation(in)} :
          call' = IF conf.err THEN [Done("ReadError", "") EXCEPT !.prompted = TRUE]
                  ELSE IF ~conf.confirmed
                  THEN [Done("nil", "cancelled") EXCEPT !.prompted = TRUE]
                  ELSE [call EXCEPT !.prompted = TRUE, !.pc = "assert"]
    /\ UNCHANGED <<cwd, workdirs, gitDirs, gitIgnores, agents, agstashDir, stashes,
                   stashedContent, stashedFrom, last>>

\* applyStashContent: utils.Assert(utils.FileExists(stashFilePath), ...)
ApplyAssertExists ==
    /\ ~Idle
    /\ call.fn = "HandleApply"
    /\ call.pc = "assert"
    /\ call' = IF utilsAssert(FileExists(StashFile(GetStashPath(Base(call.root)))))
               THEN [call EXCEPT !.pc = "read"]
               ELSE Done("panic", "Stash file path should exist")
    /\ UNCHANGED <<cwd, workdirs, gitDirs, gitIgnores, agents, agstashDir, stashes,
                   stashedContent, stashedFrom, last>>

\* applyStashContent: utils.ReadFile(stashFilePath), the assertion on the content and
\* utils.IsValidAgents(stashContent)
ApplyReadFile ==
    /\ ~Idle
    /\ call.fn = "HandleApply"
    /\ call.pc = "read"
    /\ \E rd \in {ReadFile(StashFile(GetStashPath(Base(call.root))))} :
          call' = IF rd.err # "nil" THEN Done(rd.err, "")
                  ELSE IF ~utilsAssert(rd.data # EmptyContent)
                  THEN Done("panic", "stashContent should not be empty")
                  ELSE IF IsValidAgentsPanics(rd.data)
                  THEN Done("panic", "Content too large to process safely")
                  ELSE IF ~IsValidAgents(rd.data)
                  THEN [Done("nil", "invalid") EXCEPT !.content = rd.data]
                  ELSE [call EXCEPT !.content = rd.data, !.pc = "copyread"]
    /\ UNCHANGED <<cwd, workdirs, gitDirs, gitIgnores, agents, agstashDir, stashes,
                   stashedContent, stashedFrom, last>>

\* applyStashContent, in utils.CopyFile: os.WriteFile(dst, srcData)
ApplyCopyWrite ==
    /\ ~Idle
    /\ call.fn = "HandleApply"
    /\ call.pc = "copywrite"
    /\ call' = Done("nil", "Applied")
    /\ agents' = [agents EXCEPT ![call.root] = WriteFile(call.srcData)]
    /\ UNCHANGED <<cwd, workdirs, gitDirs, gitIgnores, agstashDir, stashes,
                   stashedContent, stashedFrom, last>>

\* the steps of the run
Steps ==
    \/ \E fn \in {"HandleStash", "HandleApply"}, force \in BOOLEAN :
          (fn = "HandleApply" \/ ~force) /\ Enter(fn, force)
    \/ StepGetProjectRoot
    \/ StashFileExists
    \/ StashReadFile
    \/ StashValidate
    \/ StepCopyRead
    \/ StashCopyWrite
    \/ ApplyGetStashPath
    \/ ApplyFileExists
    \/ ApplyNeedsConfirmation
    \/ \E in \in Stdin : ApplyPrompt(in)
    \/ ApplyAssertExists
    \/ ApplyReadFile
    \/ ApplyCopyWrite

\* what the other processes do: an editor saves AGENTS.md, and other runs of the tool
\* clean, stash and uninstall
Others ==
    \/ \E c \in UserContents : EditLocal(c)
    \/ HandleClean
    \/ HandleStash
    \/ HandleUninstall

\* the run and the other processes in any order
NextConcurrent ==
    \/ Steps
    \/ Others

SpecConcurrent == InitSteps /\ [][NextConcurrent]_vars

\* the other processes at work only between two runs
NextSequential ==
    \/ Steps
    \/ \E c \in UserContents : Idle /\ EditLocal(c)
    \/ Idle /\ HandleClean
    \/ Idle /\ HandleStash
    \/ Idle /\ HandleUninstall

SpecSequential == InitSteps /\ [][NextSequential]_vars

----------------------------------------------------------------------------
(* The vocabulary of the properties, stated from the specification's text *)

\* well-formed content: the first non-whitespace characters are exactly "# AGENTS"
IsWellFormed(content) ==
    /\ content # NoFile
    /\ \E k \in 0..Len(content.text) :
          /\ \A i \in 1..k : content.text[i] \in {" ", "\t", "\n", "\r"}
          /\ ContentLen(content) >= k + 8
          /\ \A i \in 1..8 : CharAt(content, k + i) = Header[i]

\* contents at or above the safety threshold are rejected as a fault
IsWellFormedFaults(content) == content # NoFile /\ ContentLen(content) >= MaxContentSize

\* the header followed by blank lines only
IsHeaderOnly(content) ==
    /\ content # NoFile
    /\ content.pad = 0
    /\ Len(content.text) > Len(Header)
    /\ SubSeq(content.text, 1, Len(Header)) = Header
    /\ \A i \in (Len(Header) + 1)..Len(content.text) : content.text[i] = "\n"

\* the stash entry of the project rooted at root
EntryOf(root) == StashFile(GetStashPath(Base(root)))

\* answers that confirm, and answers that do not (end of input included)
AffirmativeInputs == { [kind |-> "line", text |-> t] : t \in {<<"y">>, <<" ", "Y", "e", "s", "\t">>, <<"y", "e", "a", "h">>} }

DeclineInputs == { [kind |-> "line", text |-> t] : t \in {<<"n", "o">>, <<>>, <<"m", "a", "y", "b", "e">>} } \cup {NoInput}

----------------------------------------------------------------------------
(* Properties *)

C2_StashInvalidGate ==
    [][(/\ last'.verb = "stash"
        /\ GetProjectRoot.err = "nil"
        /\ agents[GetProjectRoot.root] # NoFile
        /\ ~IsWellFormedFaults(agents[GetProjectRoot.root])
        /\ ~IsWellFormed(agents[GetProjectRoot.root])
        /\ HandleStash)
       => /\ last'.result = "nil"
          /\ stashes' = stashes]_vars

C2_Witness ==
    /\ last.verb = "stash"
    /\ last.outcome = "invalid"
    /\ agents[last.root] = HeaderTypo
    /\ EntryOf(last.root) \in ValidContents

\* C3: an apply whose stash entry fails the header check (the empty entry included)
\* returns success and leaves the local AGENTS.md as it was, whatever force and the answer.
C3_ApplyInvalidGate ==
    [][\A force \in BOOLEAN, in \in Stdin :
        (/\ last'.verb = "apply"
         /\ last'.force = force
         /\ in.kind # "err"
         /\ GetProjectRoot.err = "nil"
         /\ EntryOf(GetProjectRoot.root) # NoFile
         /\ ~IsWellFormedFaults(EntryOf(GetProjectRoot.root))
         /\ ~IsWellFormed(EntryOf(GetProjectRoot.root))
         /\ HandleApply(force, in))
        => /\ last'.result = "nil"
           /\ last'.outcome \in {"invalid", "cancelled"}
           /\ agents' = agents]_vars

\* C4: an unforced apply over an existing local file, with a valid and different stash
\* entry, whose confirmation is declined returns success and changes neither file.
C4_DeclineKeepsLocal ==
    [][\A in \in DeclineInputs :
        (/\ last'.verb = "apply"
         /\ ~last'.force
         /\ GetProjectRoot.err = "nil"
         /\ agents[GetProjectRoot.root] # NoFile
         /\ IsWellFormed(EntryOf(GetProjectRoot.root))
         /\ EntryOf(GetProjectRoot.root) # agents[GetProjectRoot.root]
         /\ HandleApply(FALSE, in))
        => /\ last'.result = "nil"
           /\ agents' = agents
           /\ stashes' = stashes]_vars

C4_Witness ==
    /\ last.verb = "apply"
    /\ ~last.force
    /\ last.answer = "no"
    /\ last.outcome = "cancelled"
    /\ agents[last.root] = HeaderTypo
    /\ EntryOf(last.root) \in ValidContents

\* C5: a stash that returns success on well-formed local content c leaves the project's
\* stash entry in existence with content exactly c, whatever it held before.
C5_StashOverwrites ==
    [][(/\ last'.verb = "stash"
        /\ last'.result = "nil"
        /\ GetProjectRoot.err = "nil"
        /\ IsWellFormed(agents[GetProjectRoot.root])
        /\ HandleStash)
       => /\ last'.outcome = "Stashed"
          /\ EntryOf(GetProjectRoot.root)' = agents[GetProjectRoot.root]]_vars

C5_Witness ==
    /\ last.verb = "stash"
    /\ last.result = "nil"
    /\ last.outcome = "Stashed"
    /\ last.overwrote
    /\ EntryOf(last.root) = agents[last.root]
    /\ agents[last.root] \in ValidContents

\* C6: a stash in a project whose root has no AGENTS.md returns success and changes no
\* stash entry: none is created, one stashed earlier is kept.
C6_StashMissingLocal ==
    [][(/\ last'.verb = "stash"
        /\ GetProjectRoot.err = "nil"
        /\ agents[GetProjectRoot.root] = NoFile
        /\ HandleStash)
       => /\ last'.result = "nil"
          /\ stashes' = stashes]_vars

C6_Witness ==
    /\ last.verb = "stash"
    /\ last.outcome = "missing"
    /\ agents[last.root] = NoFile
    /\ EntryOf(last.root) \in ValidContents

\* C7: an apply in a project that has no stash entry returns success, does not read the
\* confirmation, and leaves every AGENTS.md as it was, with or without force.
C7_ApplyNoStash ==
    [][\A force \in BOOLEAN, in \in Stdin :
        (/\ last'.verb = "apply"
         /\ last'.force = force
         /\ GetProjectRoot.err = "nil"
         /\ EntryOf(GetProjectRoot.root) = NoFile
         /\ HandleApply(force, in))
        => /\ last'.result = "nil"
           /\ last'.answer = "none"
           /\ agents' = agents]_vars

C7_Witness ==
    /\ last.verb = "apply"
    /\ ~last.force
    /\ last.outcome = "No stash found"
    /\ agents[last.root] # NoFile
    /\ EntryOf(last.root) = NoFile

\* C8: init in a directory without AGENTS.md returns no error and creates the file with
\* the fixed default template (the header and the three bullet lines).
C8_InitDefaultTemplate ==
    [][\A force \in BOOLEAN, in \in Stdin :
        (/\ last'.verb = "init"
         /\ last'.force = force
         /\ agents[cwd] = NoFile
         /\ HandleInit(force, in))
        => /\ last'.result = "nil"
           /\ agents'[cwd] = expectedContent]_vars

\* C9: an unforced init over an existing AGENTS.md whose confirmation is not affirmative
\* (a declining line, an empty line, the end of input) returns no error and keeps the file.
C9_InitDeclineKeeps ==
    [][\A in \in DeclineInputs :
        (/\ last'.verb = "init"
         /\ ~last'.force
         /\ agents[cwd] # NoFile
         /\ HandleInit(FALSE, in))
        => /\ last'.result = "nil"
           /\ agents' = agents]_vars

C9_Witness ==
    /\ last.verb = "init"
    /\ ~last.force
    /\ last.answer = "eof"
    /\ last.outcome = "cancelled"
    /\ agents[cwd] = HeaderTypo

----------------------------------------------------------------------------
\* C11: clean is idempotent.  After a clean has returned, the current directory holds no
\* AGENTS.md, whether or not it held one before, and the clean returned no error; a clean
\* that directly follows a clean returns no error as well and changes no file at all.
C11_CleanIdempotent ==
    [][ /\ (last'.verb = "clean" /\ HandleClean) =>
             /\ last'.result = "nil"
             /\ agents'[cwd] = NoFile
             /\ \A d \in Dirs \ {cwd} : agents'[d] = agents[d]
             /\ stashes' = stashes
        /\ (last.verb = "clean" /\ last'.verb = "clean" /\ HandleClean) =>
             /\ last'.result = "nil"
             /\ agents' = agents
             /\ stashes' = stashes
             /\ agstashDir' = agstashDir ]_vars

\* a clean that found nothing to remove has returned
C11_Witness ==
    /\ last.verb = "clean"
    /\ last.result = "nil"
    /\ last.outcome = "does not exist"
    /\ agents[cwd] = NoFile
    /\ \E d \in Dirs \ {cwd} : agents[d] # NoFile

----------------------------------------------------------------------------
\* C12: uninstall removes everything and is idempotent.  After an uninstall has returned,
\* <home>/.agstash and every stash entry are absent, whether or not the directory was there
\* before, and uninstall returned no error and touched no project file; an uninstall that
\* directly follows an uninstall returns no error and changes nothing; an apply that
\* directly follows an uninstall, in whatever project, finds no stash and writes nothing.
C12_UninstallIdempotent ==
    [][ /\ (last'.verb = "uninstall" /\ HandleUninstall) =>
             /\ last'.result = "nil"
             /\ ~agstashDir'
             /\ \A n \in StashNames : stashes'[n] = NoFile
             /\ agents' = agents
        /\ (last.verb = "uninstall" /\ last'.verb = "uninstall" /\ HandleUninstall) =>
             /\ last'.result = "nil"
             /\ agstashDir' = agstashDir
             /\ stashes' = stashes
             /\ agents' = agents
        /\ \A force \in BOOLEAN, in \in Stdin :
             (last.verb = "uninstall" /\ last'.verb = "apply" /\ HandleApply(force, in)) =>
                /\ last'.result = "nil" => last'.outcome = "No stash found"
                /\ last'.result \in {"nil", "ProjectRootNotFound"}
                /\ agents' = agents
                /\ \A n \in StashNames : stashes'[n] = NoFile ]_vars

\* an uninstall that removed the directory has returned, project files still in place
C12_Witness ==
    /\ last.verb = "uninstall"
    /\ last.result = "nil"
    /\ last.outcome = "Removed"
    /\ ~agstashDir
    /\ \A n \in StashNames : stashes[n] = NoFile
    /\ \E d \in Dirs : agents[d] # NoFile

----------------------------------------------------------------------------
\* C13: stash entries are keyed by base name only.  Two distinct project roots with the
\* same final path segment resolve to the same stash path and so to the same entry; a
\* forced apply that applied, in a project other than the one the entry was stashed from,
\* has written that other project's stashed content into its own AGENTS.md; and a stash
\* that stashes into an entry made from another project replaces it with its own content.
C13_BaseNameCollision ==
    /\ [](\A r1 \in Dirs \ {FsRoot}, r2 \in Dirs \ {FsRoot} :
             (r1 # r2 /\ r1[Len(r1)] = r2[Len(r2)]) =>
                /\ GetStashPath(Base(r1)) = GetStashPath(Base(r2))
                /\ EntryOf(r1) = EntryOf(r2))
    /\ [](( /\ last.verb = "apply"
            /\ last.force
            /\ last.outcome = "Applied"
            /\ stashedFrom[last.root[Len(last.root)]] \notin {NoPath, last.root} ) =>
               agents[last.root] = stashedContent[last.root[Len(last.root)]])
    /\ [][ ( /\ last'.verb = "stash"
             /\ last'.outcome = "Stashed"
             /\ stashedFrom[last'.root[Len(last'.root)]] \notin {NoPath, last'.root}
             /\ HandleStash ) =>
               /\ stashes'[last'.root[Len(last'.root)]] = agents[last'.root]
               /\ stashedFrom'[last'.root[Len(last'.root)]] = last'.root ]_vars

\* /srv/foo has just been given, by a forced apply, what /home/foo stashed, in place of
\* a different AGENTS.md of its own
C13_Witness ==
    /\ last.verb = "apply"
    /\ last.force
    /\ last.outcome = "Applied"
    /\ last.overwrote
    /\ last.root = ProjB
    /\ stashedFrom["foo"] = ProjA
    /\ agents[ProjB] = stashedContent["foo"]

----------------------------------------------------------------------------
\* the directories on the way from a directory up to the filesystem root, itself included
Ancestors(dir) == { SubSeq(dir, 1, k) : k \in 0..Len(dir) }

\* the ancestors that hold a .git or a .gitignore entry
MarkedAncestors == Ancestors(cwd) \cap (gitDirs \cup gitIgnores)

\* C14: root discovery returns the nearest marked ancestor.  In every tree and from every
\* current directory, when some directory from the current one up to the filesystem root
\* holds a .git or a .gitignore entry, GetProjectRoot returns without error the deepest
\* such directory: no marked directory lies strictly between it and the current one.
C14_NearestMarkedAncestor ==
    /\ (call.fn = "GetProjectRoot" /\ call.done /\ MarkedAncestors # {}) =>
          /\ call.err = "nil"
          /\ call.root \in MarkedAncestors
          /\ \A a \in MarkedAncestors : Len(a) <= Len(call.root)
    /\ MarkedAncestors # {} =>
          /\ GetProjectRoot.err = "nil"
          /\ GetProjectRoot.root \in MarkedAncestors
          /\ \A a \in MarkedAncestors : Len(a) <= Len(GetProjectRoot.root)

\* from /home/foo/sub, with the only marker on the way three levels up, the walk has
\* returned the filesystem root
C14_Witness ==
    /\ call.fn = "GetProjectRoot"
    /\ call.done
    /\ cwd = SubA
    /\ MarkedAncestors = {FsRoot}
    /\ call.root = FsRoot
    /\ call.err = "nil"

\* C15: root discovery terminates.  From a current directory of depth n the walk has made
\* at most n + 1 passes, and after n + 1 passes it is over; when no directory on the way up
\* holds a marker it ends with the ProjectRootNotFound error and the empty path.
C15_WalkTerminates ==
    call.fn = "GetProjectRoot" =>
       /\ call.checks <= Len(cwd) + 1
       /\ call.checks = Len(cwd) + 1 => call.done
       /\ (call.done /\ MarkedAncestors = {}) =>
             /\ call.err = "ProjectRootNotFound"
             /\ call.root = NoPath
             /\ call.checks = Len(cwd) + 1
       /\ MarkedAncestors = {} =>
             /\ GetProjectRoot.err = "ProjectRootNotFound"
             /\ GetProjectRoot.root = NoPath

\* from /home/foo/sub in a tree without markers the walk is over after four passes
C15_Witness ==
    /\ call.fn = "GetProjectRoot"
    /\ call.done
    /\ cwd = SubA
    /\ gitDirs = {}
    /\ gitIgnores = {}
    /\ call.checks = 4
    /\ call.err = "ProjectRootNotFound"

----------------------------------------------------------------------------
\* <home>/.agstash/stashes/stash-<n>.md, as a string
StashPathString(n) ==
    <<"/", "home", "/", ".agstash", "/", "stashes", "/", "stash-", n, ".md">>

\* C16: stash path determinism.  For every non-empty project name n, GetStashPath(n)
\* returns exactly <home>/.agstash/stashes/stash-<n>.md, whether the stashes directory was
\* there before the call or not; so a second call returns the path of the first.
C16_StashPathDeterminism ==
    (call.fn = "GetStashPath" /\ call.arg # "") =>
        call.ret = StashPathString(call.arg)

\* a call for project foo that found the directory an earlier call had made
C16_Witness ==
    /\ call.fn = "GetStashPath"
    /\ call.arg = "foo"
    /\ call.existed
    /\ call.ret = StashPathString("foo")

----------------------------------------------------------------------------
\* the text s with the run w of characters put in front
Prefixed(w, s) == [text |-> w \o s.text, pad |-> s.pad]

\* the text made of the characters of a string constant
Str(t) == [text |-> t, pad |-> 0]

\* C17: validator definition.  For every content below the size limit, IsValidAgents
\* returns true exactly when the text left after removing every leading space, tab,
\* newline and carriage return begins with "# AGENTS"; it returns false for the empty
\* string, for "AGENTS", for "# AGENT", for " # AGENT" and for "- content".
C17_ValidatorDefinition ==
    call.fn = "IsValidAgents" =>
       /\ ContentLen(call.arg) < 10000000 =>
             /\ call.ret \in {"true", "false"}
             /\ call.ret = "true" <=> IsWellFormed(call.arg)
       /\ call.arg \in { Str(<<>>),
                          Str(<<"A", "G", "E", "N", "T", "S">>),
                          Str(<<"#", " ", "A", "G", "E", "N", "T">>),
                          Str(<<" ", "#", " ", "A", "G", "E", "N", "T">>),
                          Str(<<"-", " ", "c", "o", "n", "t", "e", "n", "t">>) }
             => call.ret = "false"

\* the validator has accepted a header behind a carriage return
C17_Witness ==
    /\ call.fn = "IsValidAgents"
    /\ call.arg = Str(<<"\r", "#", " ", "A", "G", "E", "N", "T", "S">>)
    /\ call.ret = "true"

----------------------------------------------------------------------------
\* what is left of a content behind its first k characters
Behind(content, k) ==
    [text |-> SubSeq(content.text, k + 1, Len(content.text)), pad |-> content.pad]

\* the validator passes a content: it returns, and returns true
Passes(content) == ContentLen(content) < 10000000 /\ IsWellFormed(content)

\* C18: validator whitespace tolerance.  Whenever the argument of IsValidAgents is a
\* content s that passes with a run w of spaces, tabs, newlines and carriage returns put
\* in front, IsValidAgents returns true.
C18_WhitespaceTolerance ==
    call.fn = "IsValidAgents" =>
       \A k \in 1..Len(call.arg.text) :
          ( /\ \A i \in 1..k : call.arg.text[i] \in {" ", "\t", "\n", "\r"}
            /\ Passes(Behind(call.arg, k)) ) =>
               call.ret = "true"

\* C18, amended: whenever the argument of IsValidAgents is a content s that passes with a
\* run w of spaces, tabs, newlines and carriage returns put in front, and w + s is still
\* shorter than 10,000,000 characters, IsValidAgents returns true.
C18_WhitespaceToleranceBelowLimit ==
    (call.fn = "IsValidAgents" /\ ContentLen(call.arg) < 10000000) =>
       \A k \in 1..Len(call.arg.text) :
          ( /\ \A i \in 1..k : call.arg.text[i] \in {" ", "\t", "\n", "\r"}
            /\ Passes(Behind(call.arg, k)) ) =>
               call.ret = "true"

\* the validator has accepted a tab in front of a content that passes
C18_Witness ==
    /\ call.fn = "IsValidAgents"
    /\ call.arg = Prefixed(<<"\t">>, Str(Header \o <<"\n">>))
    /\ Passes(Str(Header \o <<"\n">>))
    /\ call.ret = "true"

\* C19: size limit.  IsValidAgents called with a content of 10,000,000 characters or more
\* panics, whatever the content is; called with a content of 9,999,999 characters that
\* begins with "# AGENTS" it returns true.
C19_SizeCeiling ==
    call.fn = "IsValidAgents" =>
       /\ ContentLen(call.arg) >= 10000000 => call.ret = "panic"
       /\ ( /\ ContentLen(call.arg) = 9999999
            /\ \A i \in 1..8 : CharAt(call.arg, i) = Header[i] ) => call.ret = "true"

\* the validator has panicked on a content of exactly 10,000,000 characters that begins
\* with the header
C19_Witness ==
    /\ call.fn = "IsValidAgents"
    /\ ContentLen(call.arg) = 10000000
    /\ \A i \in 1..8 : CharAt(call.arg, i) = Header[i]
    /\ call.ret = "panic"

----------------------------------------------------------------------------
\* the line says the word, in whatever case, with nothing but whitespace around it
SaysWord(line, word) ==
    \E from \in 0..Len(line) :
       /\ from + Len(word) <= Len(line)
       /\ \A i \in 1..from : line[i] \in {" ", "\t", "\r", "\n"}
       /\ \A i \in (from + Len(word) + 1)..Len(line) : line[i] \in {" ", "\t", "\r", "\n"}
       /\ \A i \in 1..Len(word) :
             \/ line[from + i] = word[i]
             \/ \E k \in 1..26 : LowerCase[k] = word[i] /\ UpperCase[k] = line[from + i]

\* the line, trimmed and lower-cased, is one of y, yes, ye, yep, yeah
SaysYes(line) ==
    \E word \in { <<"y">>, <<"y", "e", "s">>, <<"y", "e">>, <<"y", "e", "p">>,
                   <<"y", "e", "a", "h">> } : SaysWord(line, word)

\* C20: confirmation protocol.  getUserConfirmation answers yes exactly when it has read
\* a line that, trimmed and lower-cased, is one of y, yes, ye, yep, yeah; every other line,
\* the empty line and the end of input answer no; and an answer of no to a line or to the
\* end of input comes without an error.
C20_ConfirmationProtocol ==
    call.fn = "getUserConfirmation" =>
       /\ call.ret.confirmed <=> (call.arg.kind = "line" /\ SaysYes(call.arg.text))
       /\ call.arg.kind \in {"line", "eof"} => ~call.ret.err

\* the prompt has taken a capitalised "Yeah" between whitespace for a yes
C20_Witness ==
    /\ call.fn = "getUserConfirmation"
    /\ call.arg = [kind |-> "line", text |-> <<" ", "Y", "e", "a", "h", " ", "\t">>]
    /\ call.ret.confirmed
    /\ ~call.ret.err

----------------------------------------------------------------------------
\* C22: a failed step aborts the verb.  When no directory from the current one up to the
\* filesystem root holds a marker, stash and apply return the ProjectRootNotFound error
\* and have done nothing else: no prompt was answered, <home>/.agstash/stashes was not
\* created, and no AGENTS.md and no stash entry has changed.
C22_RootFailureAborts ==
    [][ /\ (last'.verb = "stash" /\ MarkedAncestors = {} /\ HandleStash) =>
             /\ last'.result = "ProjectRootNotFound"
             /\ last'.answer = "none"
             /\ agstashDir' = agstashDir
             /\ agents' = agents
             /\ stashes' = stashes
        /\ \A force \in BOOLEAN, in \in Stdin :
             (last'.verb = "apply" /\ MarkedAncestors = {} /\ HandleApply(force, in)) =>
                /\ last'.result = "ProjectRootNotFound"
                /\ last'.answer = "none"
                /\ agstashDir' = agstashDir
                /\ agents' = agents
                /\ stashes' = stashes ]_vars

\* an apply outside every project has returned the error, with an AGENTS.md in the
\* current directory and no <home>/.agstash
C22_Witness ==
    /\ last.verb = "apply"
    /\ last.result = "ProjectRootNotFound"
    /\ MarkedAncestors = {}
    /\ agents[cwd] # NoFile
    /\ ~agstashDir

----------------------------------------------------------------------------
\* C25: the stash store stays well-formed.  From an empty store, whatever verbs are run
\* one at a time and whatever the users save in their local AGENTS.md files, as long as
\* nobody writes under <home>/.agstash by hand: every stash entry that exists begins,
\* after leading whitespace, with "# AGENTS", and is the local content that a successful
\* stash of some project found.
C25_StoreWellFormed ==
    \A n \in StashNames :
       stashes[n] # NoFile =>
          /\ IsWellFormed(stashes[n])
          /\ ContentLen(stashes[n]) < 10000000
          /\ stashedFrom[n] \in Dirs
          /\ stashes[n] = stashedContent[n]

\* an entry is in the store while its project has gone on to an ill-formed AGENTS.md
C25_Witness ==
    /\ stashes["foo"] # NoFile
    /\ stashedFrom["foo"] = ProjA
    /\ agents[ProjA] # NoFile
    /\ ~IsWellFormed(agents[ProjA])

----------------------------------------------------------------------------
\* one standard input for each answer a run can record
AnswerInputs(answer) ==
    IF answer = "yes" THEN {[kind |-> "line", text |-> <<"y">>]}
    ELSE IF answer = "no" THEN {[kind |-> "line", text |-> <<"n", "o">>]}
    ELSE IF answer = "err" THEN {[kind |-> "err", text |-> <<>>]}
    ELSE {NoInput}

----------------------------------------------------------------------------
\* C26: stash and apply copy, never move.  A stash that stashed has left every AGENTS.md
\* as it was, the one of the project included; an apply that applied has left every stash
\* entry as it was, the one it read included, so that an apply that applies right after
\* an apply that applied leaves the local file as the first one made it; init and clean
\* change nothing under <home>/.agstash, and uninstall changes no AGENTS.md.
C26_CopyNeverMove ==
    [][ /\ (last'.verb = "stash" /\ last'.outcome = "Stashed" /\ HandleStash) =>
             /\ agents' = agents
             /\ agents'[last'.root] # NoFile
        /\ \A force \in BOOLEAN, in \in Stdin :
             (last'.verb = "apply" /\ last'.outcome = "Applied" /\ HandleApply(force, in)) =>
                /\ stashes' = stashes
                /\ stashes'[last'.root[Len(last'.root)]] # NoFile
                /\ (last.verb = "apply" /\ last.outcome = "Applied") => agents' = agents
        /\ \A in \in AnswerInputs(last'.answer) :
             (last'.verb = "init" /\ HandleInit(last'.force, in)) =>
                stashes' = stashes /\ agstashDir' = agstashDir
        /\ (last'.verb = "clean" /\ HandleClean) =>
             stashes' = stashes /\ agstashDir' = agstashDir
        /\ (last'.verb = "uninstall" /\ HandleUninstall) => agents' = agents ]_vars

\* a stash has stashed and both the local file and the entry hold the content
C26_Witness ==
    /\ last.verb = "stash"
    /\ last.outcome = "Stashed"
    /\ agents[last.root] # NoFile
    /\ stashes[last.root[Len(last.root)]] = agents[last.root]

----------------------------------------------------------------------------
\* the project the current directory is in: its deepest ancestor that holds a marker
ProjectOfCwd ==
    CHOOSE a \in MarkedAncestors : \A b \in MarkedAncestors : Len(b) <= Len(a)

----------------------------------------------------------------------------
\* C28: the empty-project-name fault is unreachable from the verbs.  Whatever directory
\* GetProjectRoot returns without error, the filesystem root included, the project name
\* that stash and apply take from it is not empty: their own assertion on the name holds
\* and GetStashPath does not panic on it.
C28_ProjectNameNonEmpty ==
    (call.fn = "GetProjectRoot" /\ call.done /\ call.err = "nil") =>
       /\ Base(call.root) # ""
       /\ utilsAssert(Base(call.root) # "")
       /\ ~GetStashPathPanics(Base(call.root))

\* the walk has returned the filesystem root from a directory below it
C28_Witness ==
    /\ call.fn = "GetProjectRoot"
    /\ call.done
    /\ call.err = "nil"
    /\ call.root = FsRoot
    /\ cwd = ProjB
    /\ Base(call.root) = "/"

----------------------------------------------------------------------------
\* C23: exit codes.  A run of init, clean, stash, apply or uninstall whose verb returned
\* no error, be it after doing its work or after a benign no-op (nothing to clean, no
\* stash found, content not valid, confirmation declined), exits with status 0 and
\* nothing on standard error; a run whose verb returned an error exits with status 1 after
\* writing "Error: " and the message to standard error; a run with an unknown command or
\* with no command exits with status 1.
C23_ExitCodes ==
    /\ last.verb \in {"init", "clean", "stash", "apply", "uninstall"} =>
          /\ last.result = "nil" => (last.exit.code = 0 /\ last.exit.stderr = <<>>)
          /\ last.outcome \in {"Created", "Removed", "Stashed", "Applied", "does not exist",
                                "No stash found", "invalid", "cancelled"} =>
                last.exit.code = 0
          /\ last.result \in {"ProjectRootNotFound", "IoError", "ReadError"} =>
                (last.exit.code = 1 /\ last.exit.stderr = <<"Error: ", last.result>>)
    /\ last.verb \in {"unknown", "nocommand"} => last.exit.code = 1

\* an apply outside every project has exited with status 1
C23_Witness ==
    /\ last.verb = "apply"
    /\ last.result = "ProjectRootNotFound"
    /\ last.exit.code = 1
    /\ last.exit.stderr = <<"Error: ", "ProjectRootNotFound">>

----------------------------------------------------------------------------
\* C24: verbose flag.  Started with -v or --verbose in front of a verb, main calls that
\* verb with the log lines going to standard output; started with the verb alone, it
\* calls that verb with the log lines discarded.
C24_VerboseFlag ==
    call.fn = "main" =>
       \A verb \in {"init", "clean", "stash", "apply", "uninstall"} :
          /\ call.arg \in {<<"-v", verb>>, <<"--verbose", verb>>} =>
                (call.handler = verb /\ call.logging = "stdout")
          /\ call.arg = <<verb>> =>
                (call.handler = verb /\ call.logging = "discard")

----------------------------------------------------------------------------
\* the entry of the project the working directory lies in
EntryOfCwd == stashes[ProjectOfCwd[Len(ProjectOfCwd)]]

\* the AGENTS.md at the root of the project the working directory lies in
LocalOfCwd == agents[ProjectOfCwd]

\* C21: confirmation gating in apply.  A run of apply with no other process at work
\* reads a confirmation from standard input only when the project has an entry, its
\* root has an AGENTS.md and force is false; the run ends having read one exactly when
\* these three hold; and the run writes the local file only out of the entry, after the
\* confirmation where one is due, without one under force or where no local file was.
C21_ConfirmationGating ==
    [][ call.fn = "HandleApply" /\ call' # call /\ call'.fn = "HandleApply" =>
          /\ (~call.prompted /\ call'.prompted) =>
                (EntryOfCwd # NoFile /\ LocalOfCwd # NoFile /\ ~call.force)
          /\ (call.pc # "done" /\ call'.pc = "done") =>
                (call'.prompted <=>
                    (EntryOfCwd # NoFile /\ LocalOfCwd # NoFile /\ ~call.force))
          /\ agents' # agents =>
                /\ (LocalOfCwd # NoFile /\ ~call.force) => call.prompted
                /\ (LocalOfCwd = NoFile \/ call.force) => ~call.prompted
                /\ agents' = [agents EXCEPT ![ProjectOfCwd] = EntryOfCwd]
                /\ IsWellFormed(EntryOfCwd)
                /\ call'.outcome = "Applied" ]_vars

\* a run of apply has overwritten the local file after the user's yes
C21_Witness ==
    /\ call.fn = "HandleApply"
    /\ call.pc = "done"
    /\ call.outcome = "Applied"
    /\ call.prompted
    /\ ~call.force
    /\ LocalOfCwd = EntryOfCwd

----------------------------------------------------------------------------
\* C29: stash writes what it validated.  Whenever a run of stash writes the entry, with
\* other processes rewriting or removing the local file at any moment, the content that
\* arrives in the entry is the content the run's validation passed, and it is
\* well-formed.
C29_StashWritesValidated ==
    [][ (call.fn = "HandleStash" /\ call.pc = "copywrite" /\ call'.pc = "done"
           /\ call'.outcome = "Stashed") =>
          /\ EntryOfCwd' = call.content
          /\ IsWellFormed(EntryOfCwd') ]_vars

----------------------------------------------------------------------------
\* C30: apply's stash-exists assertion.  In no run of apply that passed the existence
\* check of the entry does the assertion "Stash file path should exist" fail, with other
\* processes, an uninstall among them, at work at any moment.
C30_StashExistsAssertion ==
    ~ /\ call.fn = "HandleApply"
      /\ call.pc = "done"
      /\ call.ret = "panic"
      /\ call.outcome = "Stash file path should exist"

====
